---- MODULE Spec2Model ----
(***************************************************************************)
(* RouteInfo (utils.py): the per-direction joined-point cache, the nearest *)
(* segment join and the two travel-time aggregations, with the calls made  *)
(* by delay_analysis.py.                                                   *)
(*                                                                         *)
(* Geometry is one-dimensional: a geographic coordinate is an integer      *)
(* number of units along the route, a route segment is an interval of it,  *)
(* and the metric coordinate system EPSG:26910 puts one unit at 6 m behind *)
(* a false easting.  Frames are sets of rows; every telemetry row has its  *)
(* own timestamp, so the set determines the timestamp order of the query.  *)
(***************************************************************************)
EXTENDS Integers, Sequences, FiniteSets, TLC

\* ---------------------------------------------------------------- bounds
MaxJoinPings == 2
MaxAggPings == 4
MaxQueries == 2
MaxSeries == 4

\* ------------------------------------------------------ program constants
MAX_DISTANCE == 12
DEFAULT_CLIP_THRESHOLD == 1000
DEFAULT_THRESHOLD == 15

TIMEZONE == "America/Vancouver"
WGS84 == "WGS-84"
METRIC == "EPSG:26910"
NaN == "NaN"

Route == "6-VIC"
Directions == {0, 1}
directions == <<"Royal Oak", "Downtown">>

\* ------------------------------------------------------------- geometry
\* GeoSeries.to_crs on one coordinate
ToCrsCoord(c, from, to) ==
    IF from = to THEN c
    ELSE IF to = METRIC THEN 500000 + 6 * c
    ELSE (c - 500000) \div 6

\* GeoSeries.to_crs on one geometry (a point has lo = hi)
ToCrsGeom(g, to) ==
    [crs |-> to, lo |-> ToCrsCoord(g.lo, g.crs, to), hi |-> ToCrsCoord(g.hi, g.crs, to)]

\* distance from a point to a line string, both in the same coordinate system
Distance(p, g) ==
    IF p.lo < g.lo THEN g.lo - p.lo
    ELSE IF p.lo > g.hi THEN p.lo - g.hi
    ELSE 0

\* ----------------------------------------------------------------- feed
Seg(route, dir, shape, id, seq, a, b, lo, hi) ==
    [route_id |-> route, direction_id |-> dir, shape_id |-> shape,
     segment_id |-> id, stop_sequence |-> seq,
     start_stop_name |-> a, end_stop_name |-> b,
     geometry |-> [crs |-> WGS84, lo |-> lo, hi |-> hi]]

\* feed.segments: one line string per route, direction, shape and stop pair.
\* Shape S2 is a variant whose path between stops a and b is longer and which
\* runs it twice (a loop); shape S4 has no segments.
FeedSegments ==
    { Seg(Route, 0, "S1", "a-b", 1, "a", "b", 0, 2),
      Seg(Route, 0, "S1", "b-c", 2, "b", "c", 2, 4),
      Seg(Route, 0, "S2", "a-b", 1, "a", "b", 0, 3),
      Seg(Route, 0, "S2", "a-b", 3, "a", "b", 0, 3),
      Seg(Route, 1, "S3", "c-a", 1, "c", "a", 0, 4),
      Seg("10-VIC", 0, "S9", "x-y", 1, "x", "y", 0, 4) }

Pattern(trip, dir, shape, name) ==
    [trip_id |-> trip, route_id |-> Route, direction_id |-> dir,
     shape_id |-> shape, pattern_name |-> name]

\* feed.trips_patterns: trip -> shape and pattern name.  Trip T5 is not in it.
TripsPatterns ==
    { Pattern("T1", 0, "S1", "P1"),
      Pattern("T2", 0, "S2", "P2"),
      Pattern("T3", 1, "S3", "P3"),
      Pattern("T4", 0, "S4", "P4") }

\* -------------------------------------------------------------- telemetry
\* epoch seconds of 2024-09-09 08:00:00, 08:00:30, 08:01:00, 09:00:10 and
\* 09:00:40 local time
TS == <<1725894000, 1725894030, 1725894060, 1725897610, 1725897640>>
Slots == DOMAIN TS

\* speed in m/s reported in each slot
SPEEDS == <<3, 5, 4, 6, 2>>

\* scheduled start of a run of a trip (epoch seconds)
StartTimes == [a |-> 1725893400, b |-> 1725893700]

Ping(slot, route, dir, trip, run, x) ==
    [route_id |-> route, direction_id |-> dir, trip_id |-> trip,
     start_time |-> StartTimes[run], timestamp |-> TS[slot],
     longitude |-> x, speed |-> SPEEDS[slot]]

NoPing == [trip_id |-> NaN, run |-> "a", x |-> 0]
Opt(trip, run, x) == [trip_id |-> trip, run |-> run, x |-> x]

\* the telemetry every snapshot holds: one ping of direction 1 and one of
\* another route, both before the first slot
BasePings ==
    { [route_id |-> Route, direction_id |-> 1, trip_id |-> "T3",
       start_time |-> StartTimes.a, timestamp |-> 1725893990,
       longitude |-> 1, speed |-> 4],
      [route_id |-> "10-VIC", direction_id |-> 0, trip_id |-> "T1",
       start_time |-> StartTimes.a, timestamp |-> 1725893980,
       longitude |-> 1, speed |-> 4] }

\* what can report in a slot of a snapshot made for the join: trip T1 on a-b,
\* on the vertex shared by a-b and b-c, and 12 m and 18 m past the end of
\* b-c; T4, whose shape has no segments; T5, which is in no pattern
JoinOpts ==
    <<{Opt("T1", "a", 1), Opt("T1", "a", 2), Opt("T1", "a", 6)},
      {Opt("T1", "a", 7), Opt("T4", "a", 1), Opt("T5", "a", 1)},
      {Opt("T1", "a", 2), Opt("T1", "a", 3)},
      {}, {}>>

\* what can report in a slot of a snapshot made for the aggregations: run a
\* of T1 is on a-b in slots 1-3 and on b-c in slots 4-5, run b follows one
\* slot behind, T2 is on its own a-b in slots 3-4
AggOpts ==
    <<{Opt("T1", "a", 1)},
      {Opt("T1", "a", 1), Opt("T1", "b", 1)},
      {Opt("T1", "a", 1), Opt("T1", "b", 1), Opt("T2", "a", 1)},
      {Opt("T1", "a", 3), Opt("T1", "b", 1), Opt("T2", "a", 1)},
      {Opt("T1", "a", 3)}>>

\* a snapshot for the direct calls of strictmode: one ping, of T1 or of T2
StrictOpts ==
    <<{Opt("T1", "a", 1), Opt("T2", "a", 1)}, {}, {}, {}, {}>>

Used(f) == {s \in Slots : f[s] # NoPing}

Table(f) ==
    BasePings \cup
    { Ping(s, Route, 0, f[s].trip_id, f[s].run, f[s].x) : s \in Used(f) }

Mapped(trip) == \E t \in TripsPatterns : t.trip_id = trip

\* ------------------------------------------------------------------ state
VARIABLES
    db,            \* the vehicle_positions table behind db_path
    _point_data,   \* RouteInfo._point_data: direction -> cached frame
    queries,       \* number of _vehicle_positions queries run, per direction
    filled,        \* the frame returned by the call that filled the cache
    ret,           \* the outcome of the last call
    sm             \* the outcome of the last direct strictmode call

vars == <<db, _point_data, queries, filled, ret, sm>>

NoFrame == [crs |-> "None", rows |-> {}]
NoCall == [op |-> "none", direction |-> 0, arg |-> 0, status |-> "ok", hit |-> FALSE,
           value |-> NoFrame, segment_times |-> {}, file |-> <<>>]
NoSeries == [s |-> <<>>, status |-> "none", value |-> 0, message |-> <<>>]

\* RouteInfo.__init__: _segments = feed.segments.query("route_id == @route")
_segments == {s \in FeedSegments : s.route_id = Route}

\* ------------------------------------------------------ timestamps
\* offset of TIMEZONE from UTC: daylight time from 2024-03-10 10:00 UTC to
\* 2024-11-03 09:00 UTC
UtcOffset(t) == IF t >= 1710064800 /\ t < 1730624400 THEN -25200 ELSE -28800

\* pd.to_datetime(unit="s", utc=True).dt.tz_convert(TIMEZONE).dt.hour
LocalHour(t) == ((t + UtcOffset(t)) \div 3600) % 24

\* .dt.round("h") of a whole-second timestamp (an exact half hour goes to the
\* even hour)
RoundHour(t) ==
    LET q == t \div 3600
        r == t % 3600
    IN IF r < 1800 THEN 3600 * q
       ELSE IF r > 1800 THEN 3600 * (q + 1)
       ELSE IF q % 2 = 0 THEN 3600 * q ELSE 3600 * (q + 1)

\* ------------------------------------------------- _vehicle_positions
\* speed_km is kept in tenths of km/h (speed * 3.6)
_vehicle_positions(table, direction) ==
    { [trip_id |-> p.trip_id, route_id |-> p.route_id, direction_id |-> p.direction_id,
       start_time |-> p.start_time, timestamp |-> p.timestamp,
       timestamp_binned |-> RoundHour(p.timestamp),
       hour_of_day |-> LocalHour(p.timestamp),
       longitude |-> p.longitude, speed_km |-> p.speed * 36,
       geometry |-> [crs |-> WGS84, lo |-> p.longitude, hi |-> p.longitude]]
      : p \in {q \in table : q.route_id = Route /\ q.direction_id = direction} }

\* ---------------------------------------------------------------- points
\* route_segments of one direction in the metric system, "shape" holding the
\* metric line string (lines 105-107)
route_segments(direction) ==
    { [shape_id |-> s.shape_id, segment_id |-> s.segment_id,
       stop_sequence |-> s.stop_sequence,
       start_stop_name |-> s.start_stop_name, end_stop_name |-> s.end_stop_name,
       shape |-> ToCrsGeom(s.geometry, METRIC)]
      : s \in {q \in _segments : q.direction_id = direction} }

\* the trips_patterns row a ping joins on (trip_id, route_id, direction_id);
\* a ping that matches none gets NaN (lines 110-113)
PatternOf(p) ==
    LET m == {t \in TripsPatterns : /\ t.trip_id = p.trip_id
                                     /\ t.route_id = p.route_id
                                     /\ t.direction_id = p.direction_id}
    IN IF m = {} THEN [shape_id |-> NaN, pattern_name |-> NaN]
       ELSE LET t == CHOOSE t \in m : TRUE
            IN [shape_id |-> t.shape_id, pattern_name |-> t.pattern_name]

\* the groups of vehicle_positions.groupby("shape_id"): NaN keys are dropped
ShapeGroups(vp) == {PatternOf(p).shape_id : p \in vp} \ {NaN}

\* segments_by_shape.get_group(shape): the KeyError of a shape without rows
HasGroup(direction, shape) == \E s \in route_segments(direction) : s.shape_id = shape

\* sjoin_nearest(max_distance=12): every segment of the shape at the least
\* distance from the ping, when that distance is within max_distance
Nearest(g, segs) ==
    { s \in segs : /\ Distance(g, s.shape) <= MAX_DISTANCE
                   /\ \A o \in segs : Distance(g, s.shape) <= Distance(g, o.shape) }

JoinedRow(p, g, s) ==
    [trip_id |-> p.trip_id, start_time |-> p.start_time, timestamp |-> p.timestamp,
     hour_of_day |-> p.hour_of_day, speed_km |-> p.speed_km,
     longitude |-> p.longitude, geometry |-> g,
     shape_id |-> s.shape_id, pattern_name |-> PatternOf(p).pattern_name,
     segment_id |-> s.segment_id, stop_sequence |-> s.stop_sequence,
     start_stop_name |-> s.start_stop_name, end_stop_name |-> s.end_stop_name,
     shape |-> s.shape]

\* the frame built by lines 111-120, in the metric system
Joined(vp, direction) ==
    [crs |-> METRIC,
     rows |-> UNION { LET g == ToCrsGeom(p.geometry, METRIC)
                          segs == {s \in route_segments(direction) :
                                      s.shape_id = PatternOf(p).shape_id}
                      IN {JoinedRow(p, g, s) : s \in Nearest(g, segs)}
                      : p \in vp }]

\* GeoDataFrame.to_crs: the active geometry column only
ToCrs(frame, to) ==
    [crs |-> to,
     rows |-> {[r EXCEPT !.geometry = ToCrsGeom(r.geometry, to)] : r \in frame.rows}]

\* the value line 121 stores in _point_data[direction]
Stored(points) == ToCrs(points, WGS84)

\* the value line 122 returns from the branch that filled the cache
Returned(points) == points

\* points(direction) as a function of the state: the status, the frame
\* returned, the cache after the call and whether the telemetry query ran
Points(direction) ==
    IF _point_data[direction] # NoFrame
    THEN [status |-> "ok", hit |-> TRUE, value |-> _point_data[direction],
          cache |-> _point_data, queried |-> FALSE]
    ELSE LET vp == _vehicle_positions(db, direction)
         IN IF \E sh \in ShapeGroups(vp) : ~HasGroup(direction, sh)
            THEN [status |-> "KeyError", hit |-> FALSE, value |-> NoFrame,
                  cache |-> _point_data, queried |-> TRUE]
            ELSE LET points == Joined(vp, direction)
                 IN [status |-> "ok", hit |-> FALSE, value |-> Returned(points),
                     cache |-> [_point_data EXCEPT ![direction] = Stored(points)],
                     queried |-> TRUE]

\* the part of every call that is the call of points(direction)
CallPoints(direction, r) ==
    /\ r.queried => queries[direction] < MaxQueries
    /\ _point_data' = r.cache
    /\ queries' = IF r.queried THEN [queries EXCEPT ![direction] = @ + 1] ELSE queries
    /\ filled' = IF r.status = "ok" /\ ~r.hit
                 THEN [filled EXCEPT ![direction] = r.value] ELSE filled
    /\ UNCHANGED <<db, sm>>

Filename(direction, view) == <<direction, directions[direction + 1], view>>

points(direction) ==
    LET r == Points(direction)
    IN /\ CallPoints(direction, r)
       /\ ret' = [op |-> "points", direction |-> direction, arg |-> 0,
                  status |-> r.status, hit |-> r.hit, value |-> r.value,
                  segment_times |-> {}, file |-> <<>>]

\* ------------------------------------------------------------ strictmode
Range(s) == {s[i] : i \in DOMAIN s}

\* Series.value_counts: value -> number of occurrences
value_counts(s) == [v \in Range(s) |-> Cardinality({i \in DOMAIN s : s[i] = v})]

\* pd.Series.mode: every value whose count is the largest
mode(s) == {v \in Range(s) : \A w \in Range(s) : value_counts(s)[w] <= value_counts(s)[v]}

\* strictmode that takes the smallest of several modes instead of raising
strictmode_first_mode(s) ==
    IF mode(s) = {}
    THEN [status |-> "ValueError", value |-> 0, counts |-> value_counts(s)]
    ELSE [status |-> "ok",
          value |-> CHOOSE v \in mode(s) : \A w \in mode(s) : v <= w,
          counts |-> value_counts(s)]

\* strictmode (lines 14-19); mode.item() of an empty mode raises ValueError too
strictmode(s) ==
    IF Cardinality(mode(s)) > 1
    THEN [status |-> "ValueError", value |-> 0, counts |-> value_counts(s)]
    ELSE IF mode(s) = {}
    THEN [status |-> "ValueError", value |-> 0, counts |-> value_counts(s)]
    ELSE [status |-> "ok", value |-> CHOOSE v \in mode(s) : TRUE,
          counts |-> value_counts(s)]

\* the stop_sequence column of one group, one entry per row
RECURSIVE StopSequences(_)
StopSequences(G) ==
    IF G = {} THEN <<>>
    ELSE LET r == CHOOSE r \in G : TRUE
         IN <<r.stop_sequence>> \o StopSequences(G \ {r})

\* ------------------------------------------------- timestamp aggregates
\* agg "min" and "max" of the timestamps of a group
MinTimestamp(G) == CHOOSE t \in {r.timestamp : r \in G} : \A r \in G : t <= r.timestamp
MaxTimestamp(G) == CHOOSE t \in {r.timestamp : r \in G} : \A r \in G : t >= r.timestamp

\* the k-th timestamp (from 0) of the group's rows in ascending order
Kth(G, k) ==
    CHOOSE t \in {r.timestamp : r \in G} :
        /\ Cardinality({r \in G : r.timestamp < t}) <= k
        /\ k < Cardinality({r \in G : r.timestamp <= t})

\* agg "median": the middle row, or midway between the two middle rows
\* (whole seconds; the hour taken from it is that of the exact midpoint)
MedianTimestamp(G) ==
    LET n == Cardinality(G)
    IN IF n % 2 = 1 THEN Kth(G, n \div 2)
       ELSE Kth(G, n \div 2 - 1) + (Kth(G, n \div 2) - Kth(G, n \div 2 - 1)) \div 2

\* (exit_time - enter_time).dt.total_seconds()
TravelTime(G) == MaxTimestamp(G) - MinTimestamp(G)

\* the hour taken from the exit time instead of the median
HourOfDay_exit(G) == LocalHour(MaxTimestamp(G))

\* segment_times.pop("median").dt.hour
HourOfDay(G) == LocalHour(MedianTimestamp(G))

\* ------------------------------------------------------ rational numbers
RECURSIVE GCD(_, _)
GCD(a, b) == IF b = 0 THEN a ELSE GCD(b, a % b)

Abs(a) == IF a < 0 THEN 0 - a ELSE a

\* n / d in lowest terms, d > 0
Frac(n, d) ==
    LET g == GCD(Abs(n), d)
    IN [num |-> n \div g, den |-> d \div g]

FracAdd(a, b) == Frac(a.num * b.den + b.num * a.den, a.den * b.den)
FracSub(a, b) == Frac(a.num * b.den - b.num * a.den, a.den * b.den)

\* ----------------------------------------------------------- plot_hourly
\* lines 223-235: one row per (segment_id, trip_id, start_time, shape)
segment_times(pts) ==
    { LET G == {r \in pts.rows : /\ r.segment_id = k[1] /\ r.trip_id = k[2]
                                    /\ r.start_time = k[3] /\ r.shape = k[4]}
      IN [segment_id |-> k[1], trip_id |-> k[2], start_time |-> k[3],
          geometry |-> k[4],
          enter_time |-> MinTimestamp(G), exit_time |-> MaxTimestamp(G),
          travel_time |-> TravelTime(G), hour_of_day |-> HourOfDay(G)]
      : k \in {<<r.segment_id, r.trip_id, r.start_time, r.shape>> : r \in pts.rows} }

RECURSIVE SumTravelTime(_)
SumTravelTime(S) ==
    IF S = {} THEN 0
    ELSE LET c == CHOOSE c \in S : TRUE
         IN c.travel_time + SumTravelTime(S \ {c})

\* the query with >= in place of >
Positive_or_zero(st) == {c \in st : c.travel_time >= 0}

\* query("travel_time > 0") of line 237
Positive(st) == {c \in st : c.travel_time > 0}

\* lines 236-242: describe() per (segment_id, hour_of_day, geometry); of the
\* statistic set, count and mean
hourly_segment_times(st) ==
    { LET G == {c \in Positive(st) : /\ c.segment_id = k[1] /\ c.hour_of_day = k[2]
                                     /\ c.geometry = k[3]}
      IN [segment_id |-> k[1], hour_of_day |-> k[2], geometry |-> k[3],
          count |-> Cardinality(G),
          mean |-> Frac(SumTravelTime(G), Cardinality(G))]
      : k \in {<<c.segment_id, c.hour_of_day, c.geometry>> : c \in Positive(st)} }

RECURSIVE SumMean(_)
SumMean(S) ==
    IF S = {} THEN Frac(0, 1)
    ELSE LET r == CHOOSE r \in S : TRUE
         IN FracAdd(r.mean, SumMean(S \ {r}))

\* pivot_table(index="hour_of_day", columns="segment_id", values="mean"): the
\* cell of (hour, segment) is the mean of the "mean" of its rows
PivotCell(hst, hour, segment_id) ==
    {r \in hst : r.hour_of_day = hour /\ r.segment_id = segment_id}

\* .loc[reference_hour]: the KeyError of an hour that is no row of the pivot
HasHour(hst, hour) == \E r \in hst : r.hour_of_day = hour

\* .loc[reference_hour].fillna(0)[segment_id] of lines 246-253
ref_times(hst, hour, segment_id) ==
    LET cell == PivotCell(hst, hour, segment_id)
    IN IF cell = {} THEN Frac(0, 1)
       ELSE LET m == SumMean(cell)
            IN Frac(m.num, m.den * Cardinality(cell))

\* line 256
mean_diff(r, hst, hour) == FracSub(r.mean, ref_times(hst, hour, r.segment_id))

\* lines 258-261: join with _segments on segment_id, one row per match
WithSegment(r, s, col, shown) ==
    [segment_id |-> r.segment_id, hour_of_day |-> r.hour_of_day,
     geometry |-> r.geometry, count |-> r.count, mean |-> r.mean,
     time_col |-> col, shown |-> shown,
     shape_id |-> s.shape_id, stop_sequence |-> s.stop_sequence,
     start_stop_name |-> s.start_stop_name, end_stop_name |-> s.end_stop_name]

\* the frame given to choropleth_mapbox; reference_hour is {} or {hour}
HourlyFrame(pts, reference_hour) ==
    LET hst == hourly_segment_times(segment_times(pts))
    IN { WithSegment(r, s,
                     IF reference_hour = {} THEN <<"mean">>
                     ELSE <<"mean_diff", CHOOSE h \in reference_hour : TRUE>>,
                     IF reference_hour = {} THEN r.mean
                     ELSE mean_diff(r, hst, CHOOSE h \in reference_hour : TRUE))
         : <<r, s>> \in {<<r, s>> \in hst \X _segments : s.segment_id = r.segment_id} }

\* --------------------------------------------- plot_hourly_distributions
DistrKey(r) ==
    <<r.pattern_name, r.segment_id, r.start_stop_name, r.end_stop_name,
      r.trip_id, r.start_time, r.shape>>

DistrGroups(pts) ==
    { {r \in pts.rows : DistrKey(r) = k} : k \in {DistrKey(r) : r \in pts.rows} }

\* lines 317-345: one row per group, stop_sequence from strictmode
distr_segment_times(pts) ==
    { LET r == CHOOSE r \in G : TRUE
      IN [pattern_name |-> r.pattern_name, segment_id |-> r.segment_id,
          start_stop_name |-> r.start_stop_name, end_stop_name |-> r.end_stop_name,
          trip_id |-> r.trip_id, start_time |-> r.start_time, shape |-> r.shape,
          enter_time |-> MinTimestamp(G), exit_time |-> MaxTimestamp(G),
          stop_sequence |-> strictmode(StopSequences(G)).value,
          travel_time |-> TravelTime(G), hour_of_day |-> HourOfDay(G),
          segment_name |-> <<r.start_stop_name, " ... ", r.end_stop_name>>]
      : G \in DistrGroups(pts) }

\* the query with <= in place of <
Clipped_inclusive(st, clip_threshold) ==
    {c \in st : c.travel_time > 0 /\ c.travel_time <= clip_threshold}

\* query("travel_time > 0 and travel_time < @clip_threshold") of lines 346-348
Clipped(st, clip_threshold) ==
    {c \in st : c.travel_time > 0 /\ c.travel_time < clip_threshold}

\* the agg of line 331 raises when strictmode does for some group
DistrRaises(pts) ==
    \E G \in DistrGroups(pts) : strictmode(StopSequences(G)).status # "ok"

\* ------------------------------------------- plot_points, plot_slow_zones
\* the columns plotted: latitude/longitude and the hover data, not the geometry
Plotted(rows) ==
    { [longitude |-> r.longitude, speed_km |-> r.speed_km, timestamp |-> r.timestamp,
       start_time |-> r.start_time, trip_id |-> r.trip_id,
       hour_of_day |-> r.hour_of_day, segment_id |-> r.segment_id,
       stop_sequence |-> r.stop_sequence] : r \in rows }

\* query("speed_km < @threshold") of line 179
Slow(rows, threshold) == {r \in rows : r.speed_km < threshold * 10}

Fig(rows) == [crs |-> "figure", rows |-> rows]

\* a call that raised: no figure, no file; st is the segment_times frame it
\* had built by then
Failed(op, direction, arg, r, status, st) ==
    [op |-> op, direction |-> direction, arg |-> arg, status |-> status,
     hit |-> r.hit, value |-> NoFrame, segment_times |-> st, file |-> <<>>]

\* a call that returned its figure after fig.write_html
Done(op, direction, arg, r, rows, st, file) ==
    [op |-> op, direction |-> direction, arg |-> arg, status |-> "ok",
     hit |-> r.hit, value |-> Fig(rows), segment_times |-> st, file |-> file]

plot_points(direction) ==
    LET r == Points(direction)
    IN /\ CallPoints(direction, r)
       /\ ret' = IF r.status # "ok" THEN Failed("plot_points", direction, 0, r, r.status, {})
                 ELSE Done("plot_points", direction, 0, r, Plotted(r.value.rows), {},
                           Filename(direction, "points"))

plot_slow_zones(direction, threshold) ==
    LET r == Points(direction)
    IN /\ CallPoints(direction, r)
       /\ ret' = IF r.status # "ok"
                 THEN Failed("plot_slow_zones", direction, threshold, r, r.status, {})
                 ELSE Done("plot_slow_zones", direction, threshold, r,
                           Plotted(Slow(r.value.rows, threshold)), {},
                           Filename(direction, "slow_zones"))

plot_hourly(direction, reference_hour) ==
    LET r == Points(direction)
    IN /\ CallPoints(direction, r)
       /\ ret' = IF r.status # "ok"
                 THEN Failed("plot_hourly", direction, reference_hour, r, r.status, {})
                 ELSE IF \E h \in reference_hour :
                            ~HasHour(hourly_segment_times(segment_times(r.value)), h)
                 THEN Failed("plot_hourly", direction, reference_hour, r, "KeyError",
                             segment_times(r.value))
                 ELSE Done("plot_hourly", direction, reference_hour, r,
                           HourlyFrame(r.value, reference_hour),
                           segment_times(r.value),
                           Filename(direction, <<"hourly", reference_hour>>))

plot_hourly_distributions(direction, clip_threshold) ==
    LET r == Points(direction)
    IN /\ CallPoints(direction, r)
       /\ ret' = IF r.status # "ok"
                 THEN Failed("plot_hourly_distributions", direction, clip_threshold,
                             r, r.status, {})
                 ELSE IF DistrRaises(r.value)
                 THEN Failed("plot_hourly_distributions", direction, clip_threshold,
                             r, "ValueError", {})
                 ELSE Done("plot_hourly_distributions", direction, clip_threshold, r,
                           Clipped(distr_segment_times(r.value), clip_threshold),
                           distr_segment_times(r.value),
                           Filename(direction, "distr_hourly"))

\* a direct call of strictmode on a series of stop-sequence values
strictmode_call(s) ==
    /\ sm' = [s |-> s, status |-> strictmode(s).status, value |-> strictmode(s).value,
              message |-> IF strictmode(s).status = "ok" THEN <<>>
                          ELSE strictmode(s).counts]
    /\ UNCHANGED <<db, _point_data, queries, filled, ret>>

\* ------------------------------------------------------------------ Init
Telemetry(opts, max) ==
    { f \in [Slots -> UNION Range(opts) \cup {NoPing}] :
        /\ \A s \in Used(f) : f[s] \in opts[s]
        /\ Cardinality(Used(f)) <= max
        /\ \E s \in Used(f) : Mapped(f[s].trip_id) }

Init ==
    /\ \E f \in Telemetry(JoinOpts, MaxJoinPings) \cup Telemetry(AggOpts, MaxAggPings) :
          db = Table(f)
    /\ _point_data = [d \in Directions |-> NoFrame]
    /\ queries = [d \in Directions |-> 0]
    /\ filled = [d \in Directions |-> NoFrame]
    /\ ret = NoCall
    /\ sm = NoSeries

\* the arguments the calls are made with
ReferenceHours == {{}, {8}}
ClipThresholds == {60, DEFAULT_CLIP_THRESHOLD}
Thresholds == {DEFAULT_THRESHOLD}
SeriesValues == {3, 5}
SeriesInputs == UNION {[1..n -> SeriesValues] : n \in 0..MaxSeries}

Next ==
    \/ \E d \in Directions : points(d)
    \/ \E d \in Directions : plot_points(d)
    \/ \E d \in Directions, t \in Thresholds : plot_slow_zones(d, t)
    \/ \E d \in Directions, h \in ReferenceHours : plot_hourly(d, h)
    \/ \E d \in Directions, c \in ClipThresholds : plot_hourly_distributions(d, c)

Spec == Init /\ [][Next]_vars

\* the same program with direct calls of strictmode, on a small snapshot
InitStrictmode ==
    /\ \E f \in Telemetry(StrictOpts, MaxJoinPings) : db = Table(f)
    /\ _point_data = [d \in Directions |-> NoFrame]
    /\ queries = [d \in Directions |-> 0]
    /\ filled = [d \in Directions |-> NoFrame]
    /\ ret = NoCall
    /\ sm = NoSeries

NextStrictmode ==
    \/ Next
    \/ \E s \in SeriesInputs : strictmode_call(s)

SpecStrictmode == InitStrictmode /\ [][NextStrictmode]_vars


\* ================================================================ claims
\* What the claims speak of, stated from the snapshot and the feed.

\* the telemetry of the route in one direction
TelemetryOf(d) == {p \in db : p.route_id = Route /\ p.direction_id = d}

\* the pings of one direction whose trip maps to a shape
MappedPings(d) == {p \in TelemetryOf(d) : PatternOf(p).shape_id # NaN}

\* the route segments of a shape for the route and direction
SegmentsOfShape(d, sh) ==
    {s \in FeedSegments : s.route_id = Route /\ s.direction_id = d /\ s.shape_id = sh}

\* metres from a longitude to a segment (one unit is 6 m)
Metres(x, s) ==
    6 * (IF x < s.geometry.lo THEN s.geometry.lo - x
         ELSE IF x > s.geometry.hi THEN x - s.geometry.hi ELSE 0)

InTolerance(d, p) ==
    \E s \in SegmentsOfShape(d, PatternOf(p).shape_id) : Metres(p.longitude, s) <= 12

\* the last call was points(d) or a plot that called it, and points(d) completed
PointsCompleted == ret.op # "none" /\ _point_data[ret.direction] # NoFrame

\* the joined points the session holds for the direction of the last call
JoinedPoints == _point_data[ret.direction].rows

\* a segment crossing: the joined points of one run of a trip on one segment
CrossingKeys(rows) == {<<r.segment_id, r.trip_id, r.start_time>> : r \in rows}
CrossingPoints(rows, k) ==
    {r \in rows : r.segment_id = k[1] /\ r.trip_id = k[2] /\ r.start_time = k[3]}
RowsOfCrossing(frame, k) ==
    {c \in frame : c.segment_id = k[1] /\ c.trip_id = k[2] /\ c.start_time = k[3]}

\* largest minus smallest timestamp of a set of points
Span(G) ==
    LET T == {r.timestamp : r \in G}
    IN CHOOSE n \in {b - a : a, b \in T} : \A a, b \in T : b - a <= n

\* the median of the timestamps of a set of points, as seconds after the
\* first: the middle one, or midway between the two middle ones
MedianAfterFirst(G) ==
    LET first == CHOOSE t \in {r.timestamp : r \in G} : \A r \in G : t <= r.timestamp
        n == Cardinality(G)
        At(i) == CHOOSE t \in {r.timestamp : r \in G} :
                    /\ Cardinality({r \in G : r.timestamp < t}) < i
                    /\ Cardinality({r \in G : r.timestamp <= t}) >= i
    IN IF n % 2 = 1 THEN At((n + 1) \div 2) - first
       ELSE ((At(n \div 2) - first) + (At(n \div 2 + 1) - first)) \div 2

\* the hour of the day, seven hours behind UTC, of first + after
PacificHour(first, after) == (((first % 86400) + after + 86400 - 7 * 3600) \div 3600) % 24

CrossingHour(G) ==
    PacificHour(CHOOSE t \in {r.timestamp : r \in G} : \A r \in G : t <= r.timestamp,
                MedianAfterFirst(G))

\* C1: a later points(d), served from the cache, returns the frame that the
\* call which filled the cache returned, value for value, with its geometry
\* column and coordinate system.
C1_PointsIdempotent ==
    (ret.op = "points" /\ ret.status = "ok" /\ ret.hit)
        => ret.value = filled[ret.direction]

\* one call, as C2 has it
C2_Step ==
    \A d \in Directions :
        /\ queries'[d] <= 1
        /\ _point_data[d] # NoFrame => _point_data'[d] = _point_data[d]
        /\ _point_data'[d] # _point_data[d] =>
              /\ ret'.direction = d
              /\ queries'[d] = queries[d] + 1

\* C2: the cache starts empty; an entry appears for d only in a call for d
\* that completes points(d); the telemetry query of a direction runs at most
\* once; an entry once set is never replaced, removed or changed, and a call
\* for d leaves the other direction's entry alone.
C2_CacheFilledOnce ==
    /\ \A d \in Directions : _point_data[d] = NoFrame /\ queries[d] = 0
    /\ [][C2_Step]_vars

\* C3: in the frame points(d) produces every ping appears at most once, so
\* with at most one segment, also a ping equally near to two segments.
C3_AtMostOneSegment ==
    \A d \in Directions :
        \A r1, r2 \in _point_data[d].rows :
            r1.timestamp = r2.timestamp => r1 = r2

\* C4: after points(d), a ping whose trip maps to a shape is in the frame
\* exactly if a segment of that shape is within 12 m, its segment is within
\* 12 m, and a ping with no segment within 12 m does not make points(d) raise.
C4_InFrameIffWithinTolerance ==
    ret.op = "points" =>
        /\ (\E p \in MappedPings(ret.direction) : ~InTolerance(ret.direction, p))
              => ret.status = "ok"
        /\ ret.status = "ok" =>
              /\ \A p \in MappedPings(ret.direction) :
                    InTolerance(ret.direction, p)
                        <=> \E r \in ret.value.rows : r.timestamp = p.timestamp
              /\ \A r \in ret.value.rows :
                    \E s \in SegmentsOfShape(ret.direction, r.shape_id) :
                        /\ s.segment_id = r.segment_id
                        /\ s.stop_sequence = r.stop_sequence
                        /\ Metres(r.longitude, s) <= 12

\* C9: when pings map to a shape without a segment for the route and
\* direction, points(d) completes and returns the joined points of the other
\* shapes.
C9_ShapeWithoutSegments ==
    (/\ ret.op = "points"
     /\ \E p \in MappedPings(ret.direction) :
           SegmentsOfShape(ret.direction, PatternOf(p).shape_id) = {})
        => /\ ret.status = "ok"
           /\ \A p \in MappedPings(ret.direction) :
                 InTolerance(ret.direction, p)
                     <=> \E r \in ret.value.rows : r.timestamp = p.timestamp

\* the values of a series that occur most often in it
MostFrequent(s) ==
    {v \in Range(s) : \A w \in Range(s) :
        Len(SelectSeq(s, LAMBDA x : x = w)) <= Len(SelectSeq(s, LAMBDA x : x = v))}

\* the crossing has stop-sequence values that tie for the highest frequency
TiedCrossing(G) ==
    \E v, w \in {r.stop_sequence : r \in G} :
        /\ v # w
        /\ Cardinality({r \in G : r.stop_sequence = v})
              = Cardinality({r \in G : r.stop_sequence = w})
        /\ \A u \in {r.stop_sequence : r \in G} :
              Cardinality({r \in G : r.stop_sequence = u})
                  <= Cardinality({r \in G : r.stop_sequence = v})

\* C5: strictmode of a non-empty series returns the one most frequent value,
\* and raises ValueError with the value counts when two or more values tie
\* ([3,3,3,5] gives 3, [3,3,5,5] raises); plot_hourly_distributions then
\* raises that error, returns no figure and writes no file.
C5_StrictmodeFailsOnTie ==
    /\ (sm.status # "none" /\ sm.s # <<>>) =>
          /\ Cardinality(MostFrequent(sm.s)) = 1
                => sm.status = "ok" /\ sm.value \in MostFrequent(sm.s)
          /\ Cardinality(MostFrequent(sm.s)) > 1
                => /\ sm.status = "ValueError"
                   /\ MostFrequent(sm.s) \subseteq DOMAIN sm.message
          /\ sm.s = <<3, 3, 3, 5>> => sm.status = "ok" /\ sm.value = 3
          /\ sm.s = <<3, 3, 5, 5>> => sm.status = "ValueError"
    /\ (ret.op = "plot_hourly_distributions" /\ PointsCompleted) =>
          /\ (\E k \in CrossingKeys(JoinedPoints) :
                 TiedCrossing(CrossingPoints(JoinedPoints, k)))
                <=> ret.status = "ValueError"
          /\ ret.status = "ValueError" => ret.value = NoFrame /\ ret.file = <<>>

C5_Witness ==
    /\ sm.s = <<3, 3, 5, 5>> /\ sm.status = "ValueError"
    /\ ret.op = "plot_hourly_distributions" /\ ret.status = "ValueError"

\* C6: in plot_hourly_distributions every crossing is once in the frame given
\* to the boxplot if 0 < travel_time < clip_threshold, and is not in it if
\* travel_time = 0 or travel_time >= clip_threshold.
C6_ClipFilter ==
    (ret.op = "plot_hourly_distributions" /\ ret.status = "ok") =>
        \A k \in CrossingKeys(JoinedPoints) :
            LET tt == Span(CrossingPoints(JoinedPoints, k))
                n == Cardinality(RowsOfCrossing(ret.value.rows, k))
            IN /\ (0 < tt /\ tt < ret.arg) => n = 1
               /\ (tt = 0 \/ tt >= ret.arg) => n = 0

C6_Witness ==
    /\ ret.op = "plot_hourly_distributions" /\ ret.status = "ok"
    /\ \E k \in CrossingKeys(JoinedPoints) :
          Span(CrossingPoints(JoinedPoints, k)) = ret.arg
    /\ ret.value.rows # {}

\* the crossings with positive travel time of a segment in an hour
PositiveCrossings(rows, segment_id, hour) ==
    {k \in CrossingKeys(rows) :
        /\ k[1] = segment_id
        /\ Span(CrossingPoints(rows, k)) > 0
        /\ CrossingHour(CrossingPoints(rows, k)) = hour}

\* the same, of the segment with one line string
PositiveCrossingsOn(rows, segment_id, hour, geometry) ==
    {k \in PositiveCrossings(rows, segment_id, hour) :
        \E r \in CrossingPoints(rows, k) : r.shape = geometry}

RECURSIVE SumSpan(_, _)
SumSpan(rows, K) ==
    IF K = {} THEN 0
    ELSE LET k == CHOOSE k \in K : TRUE
         IN Span(CrossingPoints(rows, k)) + SumSpan(rows, K \ {k})

\* a statistic row counts the crossings K and has their arithmetic mean
DescribesCrossings(r, rows, K) ==
    /\ r.count = Cardinality(K)
    /\ r.mean.num * Cardinality(K) = SumSpan(rows, K) * r.mean.den

\* C7 as stated: in plot_hourly the statistic row of a (segment, hour) bucket
\* counts the crossings of that segment with positive travel time in that
\* hour and has their mean.
C7_HourlyCountAndMean ==
    (ret.op = "plot_hourly" /\ ret.status = "ok") =>
        \A r \in ret.value.rows :
            DescribesCrossings(r, JoinedPoints,
                PositiveCrossings(JoinedPoints, r.segment_id, r.hour_of_day))

\* C7 amended: the statistic row of a (segment, hour, line string) group
\* counts the crossings of that segment on that line string with positive
\* travel time in that hour and has their mean; every such crossing is in a
\* row, and crossings with travel time <= 0 are in none.
C7_HourlyCountAndMeanPerGeometry ==
    (ret.op = "plot_hourly" /\ ret.status = "ok") =>
        /\ \A r \in ret.value.rows :
              DescribesCrossings(r, JoinedPoints,
                  PositiveCrossingsOn(JoinedPoints, r.segment_id, r.hour_of_day,
                                      r.geometry))
        /\ \A k \in CrossingKeys(JoinedPoints) :
              Span(CrossingPoints(JoinedPoints, k)) > 0 =>
                  \E r \in ret.value.rows :
                      /\ r.segment_id = k[1]
                      /\ r.hour_of_day = CrossingHour(CrossingPoints(JoinedPoints, k))

C7_Witness ==
    /\ ret.op = "plot_hourly" /\ ret.status = "ok"
    /\ \E r \in ret.value.rows : r.count = 2

\* C8: in plot_hourly with a reference hour, when some crossing has positive
\* travel time, every statistic row has the differential mean(s, h) -
\* mean(s, reference hour), the mean of a segment without a statistic at the
\* reference hour counting as zero.
C8_ReferenceDifferential ==
    (/\ ret.op = "plot_hourly" /\ ret.arg # {} /\ PointsCompleted
     /\ \E k \in CrossingKeys(JoinedPoints) : Span(CrossingPoints(JoinedPoints, k)) > 0) =>
        /\ ret.status = "ok"
        /\ \A r \in ret.value.rows : \A h \in ret.arg :
              LET K == PositiveCrossings(JoinedPoints, r.segment_id, h)
              IN IF K = {} THEN r.shown = r.mean
                 ELSE (r.mean.num * r.shown.den - r.shown.num * r.mean.den)
                          * Cardinality(K)
                      = SumSpan(JoinedPoints, K) * r.mean.den * r.shown.den

\* C10: in plot_hourly and plot_hourly_distributions every crossing has one
\* row, with travel_time the largest minus the smallest timestamp of its
\* points and hour_of_day the local hour of their median; pings at 08:00:00,
\* 08:00:30 and 08:01:00 give travel_time 60 and hour_of_day 8.
C10_CrossingTimes ==
    (/\ ret.op \in {"plot_hourly", "plot_hourly_distributions"}
     /\ PointsCompleted /\ ret.status # "ValueError") =>
        \A k \in CrossingKeys(JoinedPoints) :
            LET G == CrossingPoints(JoinedPoints, k)
            IN /\ Cardinality(RowsOfCrossing(ret.segment_times, k)) = 1
               /\ \A c \in RowsOfCrossing(ret.segment_times, k) :
                     /\ c.travel_time = Span(G)
                     /\ c.hour_of_day = CrossingHour(G)
                     /\ {r.timestamp : r \in G} = {TS[1], TS[2], TS[3]}
                           => c.travel_time = 60 /\ c.hour_of_day = 8

C10_Witness ==
    /\ ret.op = "plot_hourly_distributions" /\ ret.status = "ok"
    /\ \E c \in ret.segment_times :
          /\ c.travel_time = 60 /\ c.hour_of_day = 8
          /\ Cardinality(CrossingPoints(JoinedPoints,
                 <<c.segment_id, c.trip_id, c.start_time>>)) = 3
    /\ \E c \in ret.segment_times : c.hour_of_day = 9

====
